---- MODULE Spec2Model ----
(***************************************************************************)
(* A model of the log tailer (src/file_watcher.py, src/utils.py) and of    *)
(* the WebSocket connection registry with its broadcast fan-out            *)
(* (src/connection_manager.py, driven by src/main.py).                     *)
(*                                                                         *)
(* The program runs on one asyncio event loop: a coroutine runs without    *)
(* interruption from one `await` to the next, so every action below is the *)
(* code between two suspension points.  The watched file is written by     *)
(* another process, so it may change between any two reads.                *)
(*                                                                         *)
(* Two specifications share the module.  SpecBroadcaster runs the          *)
(* registry, the /ws endpoint coroutines and broadcast passes;             *)
(* SpecTailer runs the file, the FileWatcher and its polling task, with    *)
(* the delivery callback as an awaited call that returns, raises or is     *)
(* cancelled.                                                              *)
(***************************************************************************)
EXTENDS Naturals, Sequences, FiniteSets, TLC

\* ------------------------------------------------------------- bounds
\* Number of WebSocket handles the transport hands to the /ws endpoint.
MaxConsumers == 2
\* Largest size in bytes the watched file takes.
MaxFileLen == 4

\* Longest registry list a direct caller of connect() builds.
MaxRegistry == 3
\* Lines the numbered-line writer appends.
MaxLines == 3
\* Most lines kept in a history of delivered lines (for all consumers together).
MaxHistory == 4
\* Longest file, and largest n, given to read_last_n_lines.
MaxTailLen == 5
MaxTailN == 2

Consumers == 1..MaxConsumers

VARIABLES
    \* ---- ConnectionManager (src/connection_manager.py:19-21)
    active_connections,        \* list of websockets, in insertion order
    connection_info,           \* keys of the metadata dict
    \* ---- one /ws endpoint coroutine per websocket (src/main.py:100-135)
    epc,                       \* where each endpoint coroutine is suspended
    connect_ret,               \* how connect() ended: "none", "returned", "raised"
    handshake,                 \* outcome of the connection_status send
    stalled,                   \* websockets whose send_text never completes
    \* ---- the running broadcast_message pass (src/connection_manager.py:84-111)
    bpc,                       \* "idle" or "sending" (suspended in send_text)
    bidx,                      \* the list iterator's index (1-based)
    bcur,                      \* the connection whose send_text is awaited
    disconnected_connections,  \* the pass's local list of failed connections
    \* ---- what the last pass did, kept until the next pass begins
    attempts,                  \* send_text calls made per websocket in the pass
    bfailed,                   \* websockets whose send_text raised in the pass
    stayed,                    \* registered at pass start and not removed while it iterated
    \* ---- the watched file, written by another process
    file,                      \* its content, a sequence of characters
    \* ---- FileWatcher (src/file_watcher.py:28-38)
    last_size,
    last_position,
    is_running,
    \* ---- the polling task created by start() (src/file_watcher.py:54)
    tpc,                       \* "none","created","read","callback","sleep","done"
    cancel_requested,          \* task.cancel() was called, CancelledError not yet thrown
    cancelled_at,              \* where the task was suspended when CancelledError arrived
    current_size,              \* local of _check_for_changes
    new_lines,                 \* local of _check_for_changes
    new_position,              \* local of _check_for_changes
    \* ---- the caller of stop() (src/file_watcher.py:59-73)
    spc,                       \* "idle" or "awaiting" (suspended in `await self.task`)
    \* ---- what the polling task did last
    last_tick,                 \* outcome of the last _check_for_changes
    read_from,                 \* offset given to the last read_new_lines call
    read_after_trunc,          \* that call was the first one after a truncation tick
    trunc_pending,             \* a truncation tick happened and no read followed yet
    \* ---- callers that use the ConnectionManager directly
    pending,                   \* websockets whose connect() is suspended in its handshake send
    \* ---- a writer that appends numbered lines, and what became of them
    written,                   \* characters the writer has appended so far
    truncated,                 \* the file has been truncated since the writer began
    passed,                    \* the lines handed to the callback, in order
    received,                  \* per consumer, the lines of the new_lines messages it got
    read_log,                  \* [from, to] of the reads of this run that did not fail
    start_offset,              \* the file size start() found
    last_call,                 \* what the last start() or stop() call did
    live_tasks,                \* polling tasks created and not yet finished
    \* ---- one call of read_last_n_lines
    ln_content,                \* the file it reads
    ln_n,                      \* its argument n
    ln_chunk,                  \* its chunk size
    ln_result,                 \* what it returned
    ln_done                    \* it has returned

bvars == <<active_connections, connection_info, epc, connect_ret, handshake, stalled,
           bpc, bidx, bcur, disconnected_connections, attempts, bfailed, stayed>>

tvars == <<file, last_size, last_position, is_running, tpc, cancel_requested,
           cancelled_at, current_size, new_lines, new_position, spc, last_tick,
           read_from, read_after_trunc, trunc_pending>>

\* State of the scenarios beyond the two components; the component
\* specifications leave it alone.
xvars == <<pending, written, truncated, passed, received, read_log, start_offset,
           last_call, live_tasks, ln_content, ln_n, ln_chunk, ln_result, ln_done>>

scenariovars == <<written, truncated, passed, received, read_log, start_offset,
                  last_call, live_tasks>>

lnvars == <<ln_content, ln_n, ln_chunk, ln_result, ln_done>>

vars == <<bvars, tvars, xvars>>

\* ------------------------------------------------------------ lists
InList(ws, conns) == \E i \in DOMAIN conns : conns[i] = ws

ListSet(conns) == {conns[i] : i \in DOMAIN conns}

\* list.remove(ws): drops the first occurrence.
RemoveFirst(conns, ws) ==
    LET i == CHOOSE k \in DOMAIN conns :
                 conns[k] = ws /\ \A j \in 1..(k - 1) : conns[j] # ws
    IN  SubSeq(conns, 1, i - 1) \o SubSeq(conns, i + 1, Len(conns))

\* ------------------------------------------------- ConnectionManager
\* A bug: disconnect() that leaves the list as it is.
disconnect_conns_keeps(conns, ws) == conns

\* disconnect(), its effect on active_connections.
disconnect_conns(conns, ws) ==
    IF InList(ws, conns) THEN RemoveFirst(conns, ws) ELSE conns

\* A bug: disconnect() that forgets the metadata.
disconnect_info_keeps(info, ws) == info

\* disconnect(), its effect on connection_info.
disconnect_info(info, ws) == info \ {ws}

\* The cleanup loop of broadcast_message: disconnect() for each failed connection.
RECURSIVE disconnect_all_conns(_, _)
disconnect_all_conns(conns, failed) ==
    IF failed = <<>> THEN conns
    ELSE disconnect_all_conns(disconnect_conns(conns, Head(failed)), Tail(failed))

get_connection_count == Len(active_connections)

\* disconnect(ws) called by an endpoint coroutine or by send_personal_message.
\* A websocket removed while a pass iterates has not stayed for the whole pass.
Disconnect(ws) ==
    /\ active_connections' = disconnect_conns(active_connections, ws)
    /\ connection_info' = disconnect_info(connection_info, ws)
    /\ stayed' = IF bpc = "sending" THEN stayed \ {ws} ELSE stayed

InitBroadcaster ==
    /\ active_connections = <<>>
    /\ connection_info = {}
    /\ epc = [c \in Consumers |-> "new"]
    /\ connect_ret = [c \in Consumers |-> "none"]
    /\ handshake = [c \in Consumers |-> "none"]
    /\ stalled = {}
    /\ bpc = "idle"
    /\ bidx = 0
    /\ bcur = 0
    /\ disconnected_connections = <<>>
    /\ attempts = [c \in Consumers |-> 0]
    /\ bfailed = {}
    /\ stayed = {}

passvars == <<bpc, bidx, bcur, disconnected_connections, attempts, bfailed>>

\* connect(): `await websocket.accept()` succeeds; the websocket is appended, its
\* metadata stored, and connect() suspends in the connection_status send.
connect_accept(ws) ==
    /\ epc[ws] = "new"
    /\ active_connections' = Append(active_connections, ws)
    /\ connection_info' = connection_info \cup {ws}
    /\ epc' = [epc EXCEPT ![ws] = "handshake"]
    /\ UNCHANGED <<connect_ret, handshake, stalled, passvars, stayed, tvars>>

\* connect(): accept() raises; nothing was appended, the except clause re-raises,
\* and the endpoint's finally clause calls disconnect().
connect_accept_fails(ws) ==
    /\ epc[ws] = "new"
    /\ Disconnect(ws)
    /\ connect_ret' = [connect_ret EXCEPT ![ws] = "raised"]
    /\ epc' = [epc EXCEPT ![ws] = "closed"]
    /\ UNCHANGED <<handshake, stalled, passvars, tvars>>

\* The connection_status send completes; connect() returns and the endpoint reads
\* the last lines and suspends in send_initial_lines.
connect_handshake_sent(ws) ==
    /\ epc[ws] = "handshake"
    /\ ws \notin stalled
    /\ handshake' = [handshake EXCEPT ![ws] = "sent"]
    /\ connect_ret' = [connect_ret EXCEPT ![ws] = "returned"]
    /\ epc' = [epc EXCEPT ![ws] = "initial"]
    /\ UNCHANGED <<active_connections, connection_info, stalled, passvars, stayed, tvars>>

\* A bug: the failure of the connection_status send leaves connect() as an
\* exception, which the endpoint's finally clause follows with disconnect().
connect_handshake_reraises(ws) ==
    /\ epc[ws] = "handshake"
    /\ ws \notin stalled
    /\ Disconnect(ws)
    /\ handshake' = [handshake EXCEPT ![ws] = "failed"]
    /\ connect_ret' = [connect_ret EXCEPT ![ws] = "raised"]
    /\ epc' = [epc EXCEPT ![ws] = "closed"]
    /\ UNCHANGED <<stalled, passvars, tvars>>

\* The connection_status send raises: send_personal_message catches the
\* exception and calls disconnect(); connect() returns normally and the endpoint
\* goes on to send_initial_lines.
connect_handshake_fails(ws) ==
    /\ epc[ws] = "handshake"
    /\ ws \notin stalled
    /\ Disconnect(ws)
    /\ handshake' = [handshake EXCEPT ![ws] = "failed"]
    /\ connect_ret' = [connect_ret EXCEPT ![ws] = "returned"]
    /\ epc' = [epc EXCEPT ![ws] = "initial"]
    /\ UNCHANGED <<stalled, passvars, tvars>>

\* send_initial_lines completes (ok) or raises (send_personal_message then calls
\* disconnect()); the endpoint enters its receive loop.
send_initial_lines(ws, ok) ==
    /\ epc[ws] = "initial"
    /\ ws \notin stalled
    /\ IF ok THEN UNCHANGED <<active_connections, connection_info, stayed>>
             ELSE Disconnect(ws)
    /\ epc' = [epc EXCEPT ![ws] = "recv"]
    /\ UNCHANGED <<connect_ret, handshake, stalled, passvars, tvars>>

\* The receive loop gets "ping" and suspends in the pong send.
endpoint_ping(ws) ==
    /\ epc[ws] = "recv"
    /\ epc' = [epc EXCEPT ![ws] = "pong"]
    /\ UNCHANGED <<active_connections, connection_info, connect_ret, handshake, stalled,
                   passvars, stayed, tvars>>

\* The pong send completes or raises (send_personal_message then calls disconnect()).
endpoint_pong(ws, ok) ==
    /\ epc[ws] = "pong"
    /\ ws \notin stalled
    /\ IF ok THEN UNCHANGED <<active_connections, connection_info, stayed>>
             ELSE Disconnect(ws)
    /\ epc' = [epc EXCEPT ![ws] = "recv"]
    /\ UNCHANGED <<connect_ret, handshake, stalled, passvars, tvars>>

\* receive_text raises WebSocketDisconnect: the loop breaks and the finally
\* clause calls disconnect().
endpoint_disconnect(ws) ==
    /\ epc[ws] = "recv"
    /\ Disconnect(ws)
    /\ epc' = [epc EXCEPT ![ws] = "closed"]
    /\ UNCHANGED <<connect_ret, handshake, stalled, passvars, tvars>>

\* The peer stops reading: from now on no send_text to it completes.  One peer
\* at most stalls in a run.
peer_stalls(ws) ==
    /\ epc[ws] \notin {"new", "closed"}
    /\ stalled = {}
    /\ stalled' = stalled \cup {ws}
    /\ UNCHANGED <<active_connections, connection_info, epc, connect_ret, handshake,
                   passvars, stayed, tvars>>

\* broadcast_message is called: it returns at once on an empty list, otherwise
\* the for loop takes the first connection and suspends in its send_text.
broadcast_message_begin ==
    /\ bpc = "idle"
    /\ bfailed' = {}
    /\ disconnected_connections' = <<>>
    /\ stayed' = ListSet(active_connections)
    /\ IF active_connections = <<>>
       THEN /\ attempts' = [c \in Consumers |-> 0]
            /\ UNCHANGED <<bpc, bidx, bcur>>
       ELSE /\ bpc' = "sending"
            /\ bidx' = 1
            /\ bcur' = active_connections[1]
            /\ attempts' = [c \in Consumers |-> IF c = active_connections[1] THEN 1 ELSE 0]
    /\ UNCHANGED <<active_connections, connection_info, epc, connect_ret, handshake,
                   stalled, tvars>>

\* The awaited send_text completes (ok) or raises (the connection is appended to
\* disconnected_connections).  The list iterator then moves on: it yields
\* active_connections[bidx + 1] of the list as it is now, or ends the loop, after
\* which every collected connection is disconnect()ed and the pass returns.
broadcast_message_step(ok) ==
    /\ bpc = "sending"
    /\ bcur \notin stalled
    /\ LET failed == IF ok THEN disconnected_connections
                          ELSE Append(disconnected_connections, bcur)
       IN  /\ bfailed' = IF ok THEN bfailed ELSE bfailed \cup {bcur}
           /\ IF bidx + 1 <= Len(active_connections)
              THEN /\ bidx' = bidx + 1
                   /\ bcur' = active_connections[bidx + 1]
                   /\ attempts' = [attempts EXCEPT ![active_connections[bidx + 1]] = @ + 1]
                   /\ disconnected_connections' = failed
                   /\ UNCHANGED <<bpc, active_connections, connection_info>>
              ELSE /\ bpc' = "idle"
                   /\ bidx' = 0
                   /\ bcur' = 0
                   /\ disconnected_connections' = <<>>
                   /\ active_connections' = disconnect_all_conns(active_connections, failed)
                   /\ connection_info' = connection_info \ ListSet(failed)
                   /\ UNCHANGED attempts
    /\ UNCHANGED <<epc, connect_ret, handshake, stalled, stayed, tvars>>

NextBroadcaster ==
    \/ \E ws \in Consumers : connect_accept(ws) /\ UNCHANGED xvars
    \/ \E ws \in Consumers : connect_accept_fails(ws) /\ UNCHANGED xvars
    \/ \E ws \in Consumers : connect_handshake_sent(ws) /\ UNCHANGED xvars
    \/ \E ws \in Consumers : connect_handshake_fails(ws) /\ UNCHANGED xvars
    \/ \E ws \in Consumers, ok \in BOOLEAN : send_initial_lines(ws, ok) /\ UNCHANGED xvars
    \/ \E ws \in Consumers : endpoint_ping(ws) /\ UNCHANGED xvars
    \/ \E ws \in Consumers, ok \in BOOLEAN : endpoint_pong(ws, ok) /\ UNCHANGED xvars
    \/ \E ws \in Consumers : endpoint_disconnect(ws) /\ UNCHANGED xvars
    \/ \E ws \in Consumers : peer_stalls(ws) /\ UNCHANGED xvars
    \/ broadcast_message_begin /\ UNCHANGED xvars
    \/ \E ok \in BOOLEAN : broadcast_message_step(ok) /\ UNCHANGED xvars

InitTailer ==
    /\ file = <<>>
    /\ last_size = 0
    /\ last_position = 0
    /\ is_running = FALSE
    /\ tpc = "none"
    /\ cancel_requested = FALSE
    /\ cancelled_at = "none"
    /\ current_size = 0
    /\ new_lines = <<>>
    /\ new_position = 0
    /\ spc = "idle"
    /\ last_tick = "none"
    /\ read_from = 0
    /\ read_after_trunc = FALSE
    /\ trunc_pending = FALSE

InitScenarios ==
    /\ pending = {}
    /\ written = 0
    /\ truncated = FALSE
    /\ passed = <<>>
    /\ received = [c \in Consumers |-> <<>>]
    /\ read_log = <<>>
    /\ start_offset = 0
    /\ last_call = "none"
    /\ live_tasks = 0

InitLastLines ==
    /\ ln_content = <<>>
    /\ ln_n = 0
    /\ ln_chunk = 0
    /\ ln_result = <<>>
    /\ ln_done = FALSE

Init == InitBroadcaster /\ InitTailer /\ InitScenarios /\ InitLastLines

SpecBroadcaster == Init /\ [][NextBroadcaster]_vars

\* ------------------------------------------------------ LineSource
Chars == {"a", "\n"}

\* str.split('\n')
RECURSIVE split(_)
split(s) ==
    IF \A i \in DOMAIN s : s[i] # "\n" THEN <<s>>
    ELSE LET i == CHOOSE k \in DOMAIN s :
                      s[k] = "\n" /\ \A j \in 1..(k - 1) : s[j] # "\n"
         IN  <<SubSeq(s, 1, i - 1)>> \o split(SubSeq(s, i + 1, Len(s)))

\* str.rstrip('\r\n')
RECURSIVE rstrip(_)
rstrip(line) ==
    IF line # <<>> /\ line[Len(line)] \in {"\r", "\n"}
    THEN rstrip(SubSeq(line, 1, Len(line) - 1))
    ELSE line

\* `cleaned_line.strip()` is the empty string
IsBlank(line) == \A i \in DOMAIN line : line[i] \in {" ", "\t", "\r", "\n"}

\* A bug: the lines of a read handed over last first.
RECURSIVE clean_lines_reversed(_)
clean_lines_reversed(lines) ==
    IF lines = <<>> THEN <<>>
    ELSE LET cleaned_line == rstrip(Head(lines))
         IN  IF IsBlank(cleaned_line) THEN clean_lines_reversed(Tail(lines))
             ELSE clean_lines_reversed(Tail(lines)) \o <<cleaned_line>>

\* The loop of read_new_lines over the split content: keeps the non-blank lines.
RECURSIVE clean_lines(_)
clean_lines(lines) ==
    IF lines = <<>> THEN <<>>
    ELSE LET cleaned_line == rstrip(Head(lines))
         IN  IF IsBlank(cleaned_line) THEN clean_lines(Tail(lines))
             ELSE <<cleaned_line>> \o clean_lines(Tail(lines))

\* get_file_size
get_file_size(content) == Len(content)

\* read_new_lines on the file as it is when it is called.
read_new_lines(content, position) ==
    IF get_file_size(content) <= position
    THEN [lines |-> <<>>, position |-> position]
    ELSE [lines |-> clean_lines(split(SubSeq(content, position + 1, Len(content)))),
          position |-> get_file_size(content)]

\* read_new_lines when the file is gone or the read raises: the except clause
\* returns no lines and the offset it was given.
read_new_lines_error(content, position) == [lines |-> <<>>, position |-> position]

\* ------------------------------------------------- read_last_n_lines
\* Bytes of the files read_last_n_lines is given.
LnChars == {"a", "b", "\n"}

\* The file contents tried: every byte string of at most MaxTailLen bytes.
LnContents == UNION {[1..k -> LnChars] : k \in 0..MaxTailLen}

\* chunk_size is 1024 in the code.  The loop only depends on where the chunk
\* boundaries fall among the newlines, so it is run here with chunks of 2 and
\* of 3 bytes on files of a few bytes.
ChunkSizes == {2, 3}

\* bytes.count(b'\n')
count_newlines(buffer) == Cardinality({i \in DOMAIN buffer : buffer[i] = "\n"})

\* The while loop: chunks are read backwards from the end of the file and put
\* in front of the buffer while the start is not reached and the buffer holds
\* at most n newlines.
RECURSIVE read_chunks(_, _, _, _, _)
read_chunks(content, n, chunk_size, pointer, buffer) ==
    IF pointer > 0 /\ count_newlines(buffer) <= n
    THEN LET read_size == IF chunk_size < pointer THEN chunk_size ELSE pointer
             new_pointer == pointer - read_size
         IN  read_chunks(content, n, chunk_size, new_pointer,
                         SubSeq(content, new_pointer + 1, new_pointer + read_size) \o buffer)
    ELSE buffer

\* [line.decode().rstrip('\r\n') for line in lines if line.strip()]
RECURSIVE strip_filter(_)
strip_filter(lines) ==
    IF lines = <<>> THEN <<>>
    ELSE IF IsBlank(Head(lines)) THEN strip_filter(Tail(lines))
         ELSE <<rstrip(Head(lines))>> \o strip_filter(Tail(lines))

\* result[-n:] for n > 0
last_n(result, n) ==
    IF Len(result) <= n THEN result
    ELSE SubSeq(result, Len(result) - n + 1, Len(result))

\* read_last_n_lines on an existing file
read_last_n_lines(content, n, chunk_size) ==
    IF n <= 0 THEN <<>>
    ELSE last_n(strip_filter(split(read_chunks(content, n, chunk_size, Len(content), <<>>))), n)

\* One call of read_last_n_lines on the chosen file.
last_lines_call ==
    /\ ~ln_done
    /\ ln_result' = read_last_n_lines(ln_content, ln_n, ln_chunk)
    /\ ln_done' = TRUE
    /\ UNCHANGED <<ln_content, ln_n, ln_chunk>>

InitLastLinesInputs ==
    /\ ln_content \in LnContents
    /\ ln_n \in 0..MaxTailN
    /\ ln_chunk \in ChunkSizes
    /\ ln_result = <<>>
    /\ ln_done = FALSE

NextLastLines ==
    last_lines_call /\ UNCHANGED <<bvars, tvars, pending, scenariovars>>

\* Every component as constructed, and a file and an n for read_last_n_lines.
InitInputs == InitBroadcaster /\ InitTailer /\ InitScenarios /\ InitLastLinesInputs

SpecLastLines == InitInputs /\ [][NextLastLines]_vars

\* ------------------------------------------------- the watched file
file_append(ch) ==
    /\ Len(file) < MaxFileLen
    /\ file' = Append(file, ch)
    /\ UNCHANGED <<last_size, last_position, is_running, tpc, cancel_requested,
                   cancelled_at, current_size, new_lines, new_position, spc, last_tick,
                   read_from, read_after_trunc, trunc_pending, bvars>>

\* The file is truncated, or replaced by a shorter one.
file_truncate(k) ==
    /\ k < Len(file)
    /\ file' = SubSeq(file, 1, k)
    /\ UNCHANGED <<last_size, last_position, is_running, tpc, cancel_requested,
                   cancelled_at, current_size, new_lines, new_position, spc, last_tick,
                   read_from, read_after_trunc, trunc_pending, bvars>>

\* ------------------------------------------------------ FileWatcher
\* A bug: start() without the is_running test.
start_unguarded ==
    /\ spc = "idle"
    /\ tpc # "read"
    /\ last_size' = get_file_size(file)
    /\ last_position' = get_file_size(file)
    /\ is_running' = TRUE
    /\ tpc' = "created"
    /\ cancel_requested' = FALSE
    /\ cancelled_at' = "none"
    /\ last_tick' = "none"
    /\ trunc_pending' = FALSE
    /\ UNCHANGED <<file, current_size, new_lines, new_position, spc, read_from,
                   read_after_trunc, bvars>>

\* A bug: start() that tails from the beginning of the file.
start_from_zero ==
    /\ spc = "idle"
    /\ tpc # "read"
    /\ IF is_running
       THEN UNCHANGED <<last_size, last_position, is_running, tpc, cancel_requested,
                        cancelled_at, last_tick, trunc_pending>>
       ELSE /\ last_size' = 0
            /\ last_position' = 0
            /\ is_running' = TRUE
            /\ tpc' = "created"
            /\ cancel_requested' = FALSE
            /\ cancelled_at' = "none"
            /\ last_tick' = "none"
            /\ trunc_pending' = FALSE
    /\ UNCHANGED <<file, current_size, new_lines, new_position, spc, read_from,
                   read_after_trunc, bvars>>

\* A bug: stop() without the is_running test.
stop_unguarded ==
    /\ spc = "idle"
    /\ tpc # "read"
    /\ is_running' = FALSE
    /\ cancel_requested' = (tpc \in {"created", "sleep", "callback"})
    /\ spc' = "awaiting"
    /\ UNCHANGED <<file, last_size, last_position, tpc, cancelled_at, current_size,
                   new_lines, new_position, last_tick, read_from, read_after_trunc,
                   trunc_pending, bvars>>

\* start() and stop() run on the event loop, so never while the polling task is
\* between the two size reads of one check.
start ==
    /\ spc = "idle"
    /\ tpc # "read"
    /\ IF is_running
       THEN UNCHANGED <<last_size, last_position, is_running, tpc, cancel_requested,
                        cancelled_at, last_tick, trunc_pending>>
       ELSE /\ last_size' = get_file_size(file)
            /\ last_position' = get_file_size(file)
            /\ is_running' = TRUE
            /\ tpc' = "created"
            /\ cancel_requested' = FALSE
            /\ cancelled_at' = "none"
            /\ last_tick' = "none"
            /\ trunc_pending' = FALSE
    /\ UNCHANGED <<file, current_size, new_lines, new_position, spc, read_from,
                   read_after_trunc, bvars>>

\* A bug: stop() that cancels the task and returns without awaiting it.
stop_without_await ==
    /\ spc = "idle"
    /\ tpc # "read"
    /\ IF ~is_running
       THEN UNCHANGED <<is_running, cancel_requested>>
       ELSE /\ is_running' = FALSE
            /\ cancel_requested' = (tpc \in {"created", "sleep", "callback"})
    /\ UNCHANGED <<file, last_size, last_position, tpc, cancelled_at, current_size,
                   new_lines, new_position, spc, last_tick, read_from, read_after_trunc,
                   trunc_pending, bvars>>

\* stop(): returns at once when not running; otherwise clears is_running,
\* cancels the task and suspends in `await self.task`.
stop ==
    /\ spc = "idle"
    /\ tpc # "read"
    /\ IF ~is_running
       THEN UNCHANGED <<is_running, cancel_requested, spc>>
       ELSE /\ is_running' = FALSE
            /\ cancel_requested' = (tpc \in {"created", "sleep", "callback"})
            /\ spc' = "awaiting"
    /\ UNCHANGED <<file, last_size, last_position, tpc, cancelled_at, current_size,
                   new_lines, new_position, last_tick, read_from, read_after_trunc,
                   trunc_pending, bvars>>

\* `await self.task` in stop() completes once the task has finished.
stop_returns ==
    /\ spc = "awaiting"
    /\ tpc = "done"
    /\ spc' = "idle"
    /\ UNCHANGED <<file, last_size, last_position, is_running, tpc, cancel_requested,
                   cancelled_at, current_size, new_lines, new_position, last_tick,
                   read_from, read_after_trunc, trunc_pending, bvars>>

\* The cancelled task is resumed with CancelledError at the await it is
\* suspended in (not yet started, the sleep, or the callback); no handler on the
\* way catches it but the one of _watch_loop, and the task ends.
task_cancelled ==
    /\ cancel_requested
    /\ tpc \in {"created", "sleep", "callback"}
    /\ tpc' = "done"
    /\ cancelled_at' = tpc
    /\ cancel_requested' = FALSE
    /\ current_size' = 0
    /\ new_lines' = <<>>
    /\ new_position' = 0
    /\ UNCHANGED <<file, last_size, last_position, is_running, spc, last_tick,
                   read_from, read_after_trunc, trunc_pending, bvars>>

\* A bug: a truncation branch that adopts the new size and keeps the old offset.
check_truncated_keeps_position(size) ==
    /\ last_position' = last_position
    /\ last_size' = size
    /\ last_tick' = "truncated"
    /\ trunc_pending' = TRUE
    /\ tpc' = "sleep"
    /\ UNCHANGED <<current_size>>

\* _check_for_changes, the branch current_size < self.last_size.
check_truncated(size) ==
    /\ last_position' = 0
    /\ last_size' = size
    /\ last_tick' = "truncated"
    /\ trunc_pending' = TRUE
    /\ tpc' = "sleep"
    /\ UNCHANGED <<current_size>>

\* _watch_loop takes its next turn (the task starts, or its sleep ends): the
\* loop ends when is_running is false, otherwise _check_for_changes reads the
\* file size and takes the truncation branch, goes on to read_new_lines, or
\* finds nothing to do.
watch_loop_tick ==
    /\ tpc \in {"created", "sleep"}
    /\ ~cancel_requested
    /\ IF ~is_running
       THEN /\ tpc' = "done"
            /\ UNCHANGED <<last_size, last_position, last_tick, trunc_pending, current_size>>
       ELSE IF get_file_size(file) < last_size
       THEN check_truncated(get_file_size(file))
       ELSE IF get_file_size(file) > last_size
       THEN /\ current_size' = get_file_size(file)
            /\ tpc' = "read"
            /\ UNCHANGED <<last_size, last_position, last_tick, trunc_pending>>
       ELSE /\ last_tick' = "same"
            /\ tpc' = "sleep"
            /\ UNCHANGED <<last_size, last_position, trunc_pending, current_size>>
    /\ UNCHANGED <<file, is_running, cancel_requested, cancelled_at, new_lines,
                   new_position, spc, read_from, read_after_trunc, bvars>>

\* _check_for_changes calls read_new_lines(path, last_position), which reads the
\* size again (ok) or fails and returns the offset it was given.  With lines to
\* deliver the task suspends in the callback; without, it stores current_size
\* and the returned offset and goes to sleep.
check_read(ok) ==
    /\ tpc = "read"
    /\ LET r == IF ok THEN read_new_lines(file, last_position)
                      ELSE read_new_lines_error(file, last_position)
       IN  /\ read_from' = last_position
           /\ read_after_trunc' = trunc_pending
           /\ trunc_pending' = FALSE
           /\ IF r.lines # <<>>
              THEN /\ new_lines' = r.lines
                   /\ new_position' = r.position
                   /\ tpc' = "callback"
                   /\ UNCHANGED <<last_size, last_position, last_tick, current_size>>
              ELSE /\ last_size' = current_size
                   /\ last_position' = r.position
                   /\ last_tick' = IF ok THEN "empty" ELSE "read_error"
                   /\ tpc' = "sleep"
                   /\ current_size' = 0
                   /\ UNCHANGED <<new_lines, new_position>>
    /\ UNCHANGED <<file, is_running, cancel_requested, cancelled_at, spc, bvars>>

\* The awaited callback returns: the check stores current_size and the new offset.
callback_returns ==
    /\ tpc = "callback"
    /\ ~cancel_requested
    /\ last_size' = current_size
    /\ last_position' = new_position
    /\ last_tick' = "delivered"
    /\ tpc' = "sleep"
    /\ current_size' = 0
    /\ new_lines' = <<>>
    /\ new_position' = 0
    /\ UNCHANGED <<file, is_running, cancel_requested, cancelled_at, spc, read_from,
                   read_after_trunc, trunc_pending, bvars>>

\* A bug: an exception of the callback that reaches _watch_loop, whose handler
\* clears is_running and ends the task.
callback_raises_fatal ==
    /\ tpc = "callback"
    /\ ~cancel_requested
    /\ last_tick' = "error"
    /\ is_running' = FALSE
    /\ tpc' = "done"
    /\ current_size' = 0
    /\ new_lines' = <<>>
    /\ new_position' = 0
    /\ UNCHANGED <<file, last_size, last_position, cancel_requested, cancelled_at, spc,
                   read_from, read_after_trunc, trunc_pending, bvars>>

\* The awaited callback raises: the except clause of _check_for_changes logs the
\* error; the two assignments after the call are skipped and _watch_loop sleeps.
callback_raises ==
    /\ tpc = "callback"
    /\ ~cancel_requested
    /\ last_tick' = "error"
    /\ tpc' = "sleep"
    /\ current_size' = 0
    /\ new_lines' = <<>>
    /\ new_position' = 0
    /\ UNCHANGED <<file, last_size, last_position, is_running, cancel_requested,
                   cancelled_at, spc, read_from, read_after_trunc, trunc_pending, bvars>>

NextTailer ==
    \/ \E ch \in Chars : file_append(ch) /\ UNCHANGED xvars
    \/ \E k \in 0..MaxFileLen : file_truncate(k) /\ UNCHANGED xvars
    \/ start /\ UNCHANGED xvars
    \/ stop /\ UNCHANGED xvars
    \/ stop_returns /\ UNCHANGED xvars
    \/ task_cancelled /\ UNCHANGED xvars
    \/ watch_loop_tick /\ UNCHANGED xvars
    \/ \E ok \in BOOLEAN : check_read(ok) /\ UNCHANGED xvars
    \/ callback_returns /\ UNCHANGED xvars
    \/ callback_raises /\ UNCHANGED xvars

SpecTailer == Init /\ [][NextTailer]_vars

\* ------------------------------------ FileWatcher on an append-only log
\* The writer only appends, one whole numbered line at a time, so every line
\* of the file is different from every other.
tailstate == <<last_size, last_position, is_running, tpc, cancel_requested,
               cancelled_at, current_size, new_lines, new_position, spc, last_tick,
               read_from, read_after_trunc, trunc_pending>>

append_line ==
    /\ written < MaxLines
    /\ file' = file \o <<ToString(written + 1), "\n">>
    /\ written' = written + 1
    /\ UNCHANGED <<tailstate, bvars>>

\* start(), remembering the file size it found and the task it created.
delivery_start ==
    /\ start
    /\ start_offset' = IF is_running THEN start_offset ELSE Len(file)
    /\ read_log' = IF is_running THEN read_log ELSE <<>>
    /\ live_tasks' = IF is_running THEN live_tasks ELSE live_tasks + 1
    /\ last_call' = IF is_running THEN "start_noop" ELSE "start"
    /\ UNCHANGED <<written, passed>>

\* stop(), remembering whether it followed another stop().
delivery_stop ==
    /\ stop
    /\ last_call' = IF is_running THEN "stop"
                    ELSE IF last_call \in {"stop", "stop_twice"} THEN "stop_twice"
                    ELSE "stop_noop"
    /\ UNCHANGED <<written, passed, read_log, start_offset, live_tasks>>

\* The polling task ends.
delivery_task_cancelled ==
    /\ task_cancelled
    /\ live_tasks' = live_tasks - 1
    /\ UNCHANGED <<written, passed, read_log, start_offset, last_call>>

\* A turn of _watch_loop; the task ends when it finds is_running false.
delivery_tick ==
    /\ watch_loop_tick
    /\ live_tasks' = IF tpc' = "done" THEN live_tasks - 1 ELSE live_tasks
    /\ UNCHANGED <<written, passed, read_log, start_offset, last_call>>

\* read_new_lines; a read that succeeds is logged with the offsets it covered,
\* and the lines it hands to the callback are logged as passed.
delivery_read(ok) ==
    /\ check_read(ok)
    /\ read_log' = IF ok THEN <<last_position, read_new_lines(file, last_position).position>>
                         ELSE read_log
    /\ passed' = IF tpc' = "callback" THEN passed \o new_lines' ELSE passed
    /\ Len(passed') <= MaxHistory
    /\ UNCHANGED <<written, start_offset, last_call, live_tasks>>

NextDelivery ==
    \/ append_line /\ UNCHANGED <<pending, truncated, passed, received, read_log,
                                  start_offset, last_call, live_tasks, lnvars>>
    \/ delivery_start /\ UNCHANGED <<pending, truncated, received, lnvars>>
    \/ delivery_stop /\ UNCHANGED <<pending, truncated, received, lnvars>>
    \/ stop_returns /\ UNCHANGED xvars
    \/ delivery_task_cancelled /\ UNCHANGED <<pending, truncated, received, lnvars>>
    \/ delivery_tick /\ UNCHANGED <<pending, truncated, received, lnvars>>
    \/ \E ok \in BOOLEAN :
           delivery_read(ok) /\ UNCHANGED <<pending, truncated, received, lnvars>>
    \/ callback_returns /\ UNCHANGED xvars
    \/ callback_raises /\ UNCHANGED xvars

SpecDelivery == Init /\ [][NextDelivery]_vars

\* --------------------------- FileWatcher feeding broadcast_new_lines
\* The composition main.py builds: the callback is manager.broadcast_new_lines,
\* which sends one new_lines message holding the batch to the connections of
\* the list, each at most once in a pass, and lets no send error out.  The
\* writer appends numbered lines and may cut the file back to a prefix; the
\* FileWatcher is started and left running.

\* The number of lines in the logs of the consumers cs.
RECURSIVE total_received(_, _)
total_received(log, cs) ==
    IF cs = {} THEN 0
    ELSE LET c == CHOOSE x \in cs : TRUE
         IN  Len(log[c]) + total_received(log, cs \ {c})

\* The file is cut back to its first k bytes, once.
pipeline_truncate(k) ==
    /\ ~truncated
    /\ file_truncate(k)
    /\ truncated' = TRUE
    /\ UNCHANGED <<written, received>>

\* The pass of broadcast_new_lines has sent the batch to the consumers S (the
\* others are not connected, failed, or were passed over) and the callback
\* returns.
pipeline_callback_returns(S) ==
    /\ callback_returns
    /\ received' = [c \in Consumers |->
                       IF c \in S THEN received[c] \o new_lines ELSE received[c]]
    /\ total_received(received', Consumers) <= MaxHistory
    /\ UNCHANGED <<written, truncated>>

NextPipeline ==
    \/ append_line /\ UNCHANGED <<pending, truncated, passed, received, read_log,
                                  start_offset, last_call, live_tasks, lnvars>>
    \/ \E k \in 0..MaxFileLen :
           pipeline_truncate(k) /\ UNCHANGED <<pending, passed, read_log, start_offset,
                                               last_call, live_tasks, lnvars>>
    \/ start /\ UNCHANGED xvars
    \/ watch_loop_tick /\ UNCHANGED xvars
    \/ \E ok \in BOOLEAN : check_read(ok) /\ UNCHANGED xvars
    \/ \E S \in SUBSET Consumers :
           pipeline_callback_returns(S) /\ UNCHANGED <<pending, passed, read_log, start_offset,
                                                       last_call, live_tasks, lnvars>>

SpecPipeline == Init /\ [][NextPipeline]_vars

\* ------------------------------- ConnectionManager, called directly
\* The same methods with any caller: connect() may be called for a websocket
\* that is already registered, and nobody follows a raising connect() with
\* disconnect().

\* connect(): accept() succeeds; the websocket is appended (whether or not the
\* list holds it already), its client_info stored (callers pass one, as
\* websocket_endpoint does), and connect() suspends in the
\* connection_status send.
register_accept(ws) ==
    /\ ws \notin pending
    /\ Len(active_connections) < MaxRegistry
    /\ active_connections' = Append(active_connections, ws)
    /\ connection_info' = connection_info \cup {ws}
    /\ pending' = pending \cup {ws}
    /\ UNCHANGED <<epc, connect_ret, handshake, stalled, passvars, stayed>>

\* connect(): accept() raises; the except clause removes the websocket from
\* active_connections if it is there, leaves connection_info alone and re-raises.
register_accept_fails(ws) ==
    /\ active_connections' = disconnect_conns(active_connections, ws)
    /\ stayed' = IF bpc = "sending" THEN stayed \ {ws} ELSE stayed
    /\ UNCHANGED <<connection_info, pending, epc, connect_ret, handshake, stalled, passvars>>

\* The connection_status send of a suspended connect() completes, or raises and
\* send_personal_message calls disconnect(); connect() returns.
register_handshake(ws, ok) ==
    /\ ws \in pending
    /\ pending' = pending \ {ws}
    /\ IF ok THEN UNCHANGED <<active_connections, connection_info, stayed>>
             ELSE Disconnect(ws)
    /\ UNCHANGED <<epc, connect_ret, handshake, stalled, passvars>>

\* disconnect(ws)
unregister(ws) ==
    /\ Disconnect(ws)
    /\ UNCHANGED <<pending, epc, connect_ret, handshake, stalled, passvars>>

\* send_personal_message(message, ws): the send completes, or raises and the
\* except clause calls disconnect().
send_personal_message(ws, ok) ==
    /\ IF ok THEN UNCHANGED <<active_connections, connection_info, stayed>>
             ELSE Disconnect(ws)
    /\ UNCHANGED <<pending, epc, connect_ret, handshake, stalled, passvars>>

NextRegistry ==
    \/ \E ws \in Consumers : register_accept(ws) /\ UNCHANGED <<tvars, scenariovars, lnvars>>
    \/ \E ws \in Consumers : register_accept_fails(ws) /\ UNCHANGED <<tvars, scenariovars, lnvars>>
    \/ \E ws \in Consumers, ok \in BOOLEAN :
           register_handshake(ws, ok) /\ UNCHANGED <<tvars, scenariovars, lnvars>>
    \/ \E ws \in Consumers : unregister(ws) /\ UNCHANGED <<tvars, scenariovars, lnvars>>
    \/ \E ws \in Consumers, ok \in BOOLEAN :
           send_personal_message(ws, ok) /\ UNCHANGED <<tvars, scenariovars, lnvars>>
    \/ broadcast_message_begin /\ UNCHANGED xvars
    \/ \E ok \in BOOLEAN : broadcast_message_step(ok) /\ UNCHANGED xvars

SpecRegistry == Init /\ [][NextRegistry]_vars

\* The event loop resumes a coroutine whose await is done: a send_text of the
\* pass that can complete does complete.
FairSpecBroadcaster ==
    SpecBroadcaster
    /\ WF_vars(\E ok \in BOOLEAN : broadcast_message_step(ok) /\ UNCHANGED xvars)

\* ------------------------------------------------------- properties

\* C1: when a broadcast pass has ended, every consumer that was registered for
\* the whole pass has been sent the message exactly once (none skipped, none
\* sent twice), whatever register, unregister and send failures interleaved.
C1_ExactlyOnce ==
    bpc = "idle" => \A c \in stayed : attempts[c] = 1

\* C2: broadcast isolation.  When a pass in which some send failed has ended,
\* every consumer that stayed registered through the pass and whose send did not
\* fail has been delivered the message, and every failing consumer is out of
\* the registry.
C2_BroadcastIsolation ==
    (bpc = "idle" /\ bfailed # {}) =>
        /\ \A c \in stayed \ bfailed : attempts[c] >= 1
        /\ \A c \in bfailed : ~InList(c, active_connections)

\* C3: a broadcast pass that still has a registered consumer to serve eventually
\* ends, also when the send to one consumer never completes.
C3_PassEnds ==
    (bpc = "sending" /\ \E c \in Consumers :
                            InList(c, active_connections) /\ attempts[c] = 0)
        ~> (bpc = "idle")

\* C4: once start() has initialised the watcher, last_position <= last_size.
C4_OffsetWithinSize ==
    tpc # "none" => last_position <= last_size

\* C5: truncation recovery, within one run of the polling loop.  A tick that
\* finds the file smaller than last_size sets last_position = 0 and last_size =
\* the size it read, and invokes no callback; from then until the next
\* read_new_lines call the offset stays 0, and that call is given offset 0.
C5_TruncationRecovery ==
    /\ [](trunc_pending => last_position = 0)
    /\ [](read_after_trunc => read_from = 0)
    /\ [][(watch_loop_tick /\ is_running /\ get_file_size(file) < last_size) =>
            /\ last_position' = 0
            /\ last_size' = get_file_size(file)
            /\ tpc' = "sleep"
            /\ new_lines' = <<>>]_vars

\* The first read after a truncation has handed lines, read from offset 0, to
\* the callback.
C5_Witness ==
    /\ read_after_trunc
    /\ read_from = 0
    /\ tpc = "callback"
    /\ new_lines # <<>>

\* C6: the tick that follows a truncation tick delivers the lines the file holds,
\* with no further append: it is not a tick that finds nothing to do while the
\* file holds lines.
C6_RotatedContentDelivered ==
    [][(last_tick = "truncated" /\ last_tick' = "same") =>
            read_new_lines(file, 0).lines = <<>>]_vars

\* C7: once stop() has returned (the watcher is not running and no stop() is
\* suspended), no polling task is alive and no cancellation is pending; and the
\* callback is only ever invoked by a running watcher with no stop() in progress.
C7_NoPollingAfterStop ==
    /\ []((~is_running /\ spc = "idle") => (tpc \in {"none", "done"} /\ ~cancel_requested))
    /\ [][(tpc' = "callback" /\ tpc # "callback") => (is_running /\ spc = "idle")]_vars

\* stop() has returned after cancelling a task that was suspended in the callback.
C7_Witness ==
    /\ ~is_running
    /\ spc = "idle"
    /\ tpc = "done"
    /\ cancelled_at = "callback"

\* C8 as stated: after an iteration in which the callback raised, the watcher
\* is not running.
C8_ErrorIsFatal ==
    last_tick = "error" => ~is_running

\* C8 as amended: an error raised by the callback is caught inside
\* _check_for_changes: that step leaves is_running true, last_size and
\* last_position as they were, and the task in its sleep, from which the next
\* tick follows; a failed file read returns no lines and the offset unchanged, and
\* leaves the watcher running too.
C8_ErrorIsNotFatal ==
    [][/\ (tpc = "callback" /\ ~cancel_requested /\ tpc' # "callback" /\ last_tick' = "error") =>
            /\ is_running /\ is_running'
            /\ tpc' = "sleep"
            /\ last_size' = last_size
            /\ last_position' = last_position
       /\ (tpc = "read" /\ tpc' = "sleep" /\ last_tick' = "read_error") =>
            /\ is_running /\ is_running'
            /\ last_position' = last_position]_vars

\* The callback raised, and the watcher is running with its task asleep.
C8_Witness ==
    /\ last_tick = "error"
    /\ is_running
    /\ tpc = "sleep"
    /\ ~cancel_requested

\* C9 as stated: when the connection_status send fails, the consumer is out of
\* the registry and connect() has raised.
C9_FailurePropagates ==
    \A c \in Consumers :
        handshake[c] = "failed" =>
            (~InList(c, active_connections) /\ connect_ret[c] = "raised")

\* C9 as amended: when the connection_status send fails, the consumer is out of
\* the registry and of the metadata, and connect() has returned normally.
C9_FailureSwallowed ==
    \A c \in Consumers :
        handshake[c] = "failed" =>
            /\ ~InList(c, active_connections)
            /\ c \notin connection_info
            /\ connect_ret[c] = "returned"

\* A handshake send failed and the endpoint went on to send the initial lines.
C9_Witness ==
    \E c \in Consumers : handshake[c] = "failed" /\ epc[c] = "initial"

\* C10: the step in which a consumer's connection_status send fails leaves it
\* out of the registry and of the metadata, removes nobody else, and leaves
\* get_connection_count() = 0 when nobody else was registered; the step in which
\* accept() fails leaves registry and metadata as they were.
C10_FailedRegisterLeavesNoTrace ==
    [][\A c \in Consumers :
        /\ (epc[c] = "handshake" /\ handshake'[c] = "failed") =>
             /\ ~InList(c, active_connections')
             /\ c \notin connection_info'
             /\ \A d \in Consumers \ {c} :
                    /\ InList(d, active_connections') = InList(d, active_connections)
                    /\ (d \in connection_info') = (d \in connection_info)
             /\ (ListSet(active_connections) \subseteq {c}) => get_connection_count' = 0
        /\ (epc[c] = "new" /\ connect_ret'[c] = "raised") =>
             /\ active_connections' = active_connections
             /\ connection_info' = connection_info]_vars

\* One consumer's handshake send failed, another's accept failed, and the
\* registry is empty.
C10_Witness ==
    /\ \E c \in Consumers : handshake[c] = "failed"
    /\ \E d \in Consumers : connect_ret[d] = "raised"
    /\ get_connection_count = 0

\* C12: no consumer appears twice in the registry.
C12_AtMostOnce ==
    \A i, j \in DOMAIN active_connections :
        i # j => active_connections[i] # active_connections[j]

\* C17: send_personal_message never raises: the endpoint coroutine that called
\* it (for the initial lines or a pong) goes on to its receive loop.  When the
\* send failed the consumer is out of the registry and of the metadata; when
\* it succeeded the registry and the metadata are as before.  Either way no
\* other consumer is removed or sent anything.
C17_SendDirectSwallows ==
    [][\A ws \in Consumers :
        /\ (send_initial_lines(ws, FALSE) \/ endpoint_pong(ws, FALSE)) =>
             /\ ~InList(ws, active_connections')
             /\ ws \notin connection_info'
        /\ (send_initial_lines(ws, TRUE) \/ endpoint_pong(ws, TRUE)) =>
             /\ active_connections' = active_connections
             /\ connection_info' = connection_info
        /\ (epc[ws] \in {"initial", "pong"} /\ epc'[ws] # epc[ws]) =>
             /\ epc'[ws] = "recv"
             /\ \A d \in Consumers \ {ws} :
                    /\ InList(d, active_connections') = InList(d, active_connections)
                    /\ (d \in connection_info') = (d \in connection_info)
                    /\ epc'[d] = epc[d]
             /\ attempts' = attempts
             /\ bcur' = bcur]_vars

\* A consumer whose handshake was sent is in its receive loop and out of the
\* registry, and no broadcast pass has reported a failure.
C17_Witness ==
    \E ws \in Consumers :
        /\ epc[ws] = "recv"
        /\ handshake[ws] = "sent"
        /\ ~InList(ws, active_connections)
        /\ ws \notin connection_info
        /\ bfailed = {}
        /\ \A c \in Consumers : attempts[c] = 0

\* C20: every consumer with an entry in connection_info is in active_connections.
C20_MetadataRegistered ==
    connection_info \subseteq ListSet(active_connections)

\* The non-blank lines of a whole file, in file order.
NonBlankLines(content) ==
    LET lines == split(content)
        keep == {i \in DOMAIN lines : ~IsBlank(lines[i])}
        RECURSIVE pick(_)
        pick(i) == IF i > Len(lines) THEN <<>>
                   ELSE IF i \in keep THEN <<lines[i]>> \o pick(i + 1)
                   ELSE pick(i + 1)
    IN  pick(1)

\* C18: read_last_n_lines returns exactly the last min(n, k) non-blank lines of
\* the file in file order, k being the number of non-blank lines of the file.
C18_LastLines ==
    ln_done =>
        LET all == NonBlankLines(ln_content)
            k == Len(all)
            m == IF ln_n < k THEN ln_n ELSE k
        IN  ln_result = SubSeq(all, k - m + 1, k)

\* C13: with a file that is only appended to, no line is passed to the delivery
\* callback twice.
C13_PassedAtMostOnce ==
    \A i, j \in DOMAIN passed : i # j => passed[i] # passed[j]

\* C14: start() while running changes nothing of the FileWatcher (offsets,
\* task, flags) and creates no task; at most one polling task is alive.
C14_StartWhileRunningNoOp ==
    [][/\ (start /\ is_running) => (UNCHANGED tvars /\ live_tasks' = live_tasks)
       /\ live_tasks' <= 1
       /\ (live_tasks' = 1) = (tpc' \notin {"none", "done"})]_vars

\* start() was called while the task was suspended in the callback.
C14_Witness ==
    /\ last_call = "start_noop"
    /\ is_running
    /\ tpc = "callback"
    /\ live_tasks = 1

\* C15: stop() on a FileWatcher that is not running (stopped before, never
\* started) returns at once and changes nothing; after any stop() is_running
\* is false.
C15_StopIdempotent ==
    [][/\ (stop /\ ~is_running) => UNCHANGED tvars
       /\ (last_call' \in {"stop", "stop_noop", "stop_twice"}) => ~is_running']_vars

\* stop() was called twice in a row on a FileWatcher that had been running.
C15_Witness ==
    /\ last_call = "stop_twice"
    /\ tpc = "done"
    /\ spc = "idle"
    /\ ~is_running

\* The append of the example.
Line1Line2 == <<"l", "i", "n", "e", "1", "\n", "l", "i", "n", "e", "2", "\n">>

\* C16: start() leaves last_size = last_position = the file size it found; with
\* no truncation every read starts at or after that offset and every line
\* handed to the callback lies after it in the file; two lines appended to an
\* empty file after start are handed over in one batch with the offset at
\* their end, as read_new_lines does for 'line1\nline2\n' (12 bytes).
C16_TailsFromEnd ==
    /\ (last_call = "start" /\ tpc = "created") =>
           (last_size = start_offset /\ last_position = start_offset)
    /\ (tpc = "callback" /\ ~truncated) =>
           /\ read_from >= start_offset
           /\ \A i \in DOMAIN new_lines :
                  \E j \in (start_offset + 1)..Len(file) : <<file[j]>> = new_lines[i]
    /\ (tpc = "callback" /\ start_offset = 0 /\ read_from = 0 /\ new_position = 4) =>
           new_lines = << <<"1">>, <<"2">> >>
    /\ read_new_lines(Line1Line2, 0) =
           [lines |-> << <<"l", "i", "n", "e", "1">>, <<"l", "i", "n", "e", "2">> >>,
            position |-> 12]

\* The task was started on a file that already held a line and is handing the
\* line appended since to the callback.
C16_Witness ==
    /\ tpc = "callback"
    /\ start_offset = 2
    /\ new_lines = << <<"2">> >>
    /\ new_position = 4

\* C19: a successful read starts at the offset where the previous successful
\* read of the same run ended.
C19_ContiguousReads ==
    [][(tpc = "read" /\ tpc' # "read" /\ last_tick' # "read_error" /\ read_log # <<>>)
          => read_log'[1] = read_log[2]]_vars

\* The number of the appended line a delivered line begins with.
LineNo(line) == CHOOSE k \in 1..(MaxLines + 1) : ToString(k) = line[1]

\* The lines a consumer received are in append order.
InAppendOrder(c) ==
    \A i, j \in DOMAIN received[c] :
        i < j => LineNo(received[c][i]) <= LineNo(received[c][j])

\* C11: for every consumer, the lines of the new_lines messages it received,
\* batch after batch, are in the order they were appended to the file.
C11_AppendOrder == \A c \in Consumers : InAppendOrder(c)

\* C11 (amended): while the file has never been cut back, for every consumer
\* the lines it received are in append order.
C11_AppendOrderAbsentTruncation ==
    ~truncated => \A c \in Consumers : InAppendOrder(c)

\* With no truncation, a consumer received line 1 from a first read and line 2
\* from a read that started after it.
C11_Witness ==
    /\ ~truncated
    /\ read_from = 2
    /\ \E c \in Consumers : received[c] = << <<"1">>, <<"2">> >>

====
